---------------------------- MODULE Spec2Model ----------------------------
(***************************************************************************)
(* A model of agent_watchdog/core.py: the AgentWatchdog budget governor    *)
(* (log_action, audit, min_window_freshness) and its static calibrate      *)
(* search.                                                                 *)
(*                                                                         *)
(* Numbers.  Python floats are modelled as exact rationals, records        *)
(* [num, den] with den > 0.  Every float the code computes here is a       *)
(* quotient of two small integers or a sum of two 2-decimal constants;     *)
(* for the thresholds of this model (Thresholds, CandidateValues) and      *)
(* every freshness d/n with n <= 15 the float comparisons of the code      *)
(* agree with the exact ones.  The default sweep of calibrate is taken as  *)
(* the exact hundredths 0.10 .. 0.50: its floats compare like them with    *)
(* every d/n except 3/10, a freshness no window of fewer than 10 items     *)
(* has.                                                                    *)
(*                                                                         *)
(* Strings.  A Python str is a sequence of one-character strings; None is  *)
(* the record NoneAction.                                                  *)
(***************************************************************************)
EXTENDS Integers, Sequences, FiniteSets

VARIABLES
    kill_threshold,   \* self.kill_threshold (a rational)
    window_size,      \* self.window_size, or calibrate's window_size argument
    min_steps,        \* self.min_steps, or calibrate's min_steps argument
    history,          \* self.history: sequence of signatures
    ret,              \* what the most recent call returned
    online,           \* the report of the most recent audit(use_window=True)
    labeled_logs,     \* calibrate's labeled_logs argument
    thresholds,       \* calibrate's thresholds argument
    objective,        \* calibrate's objective argument
    seqs              \* the pair of sequences handed to _freshness

vars == <<kill_threshold, window_size, min_steps, history, ret, online,
          labeled_logs, thresholds, objective, seqs>>

---------------------------------------------------------------------------
(* Bounds of the model *)

MaxHist == 6
MaxWindow == 3
MaxMinSteps == 3

---------------------------------------------------------------------------
(* Rationals *)

Frac(n, d) == [num |-> n, den |-> d]

One == Frac(1, 1)

Zero == Frac(0, 1)

Lt(a, b) == a.num * b.den < b.num * a.den

Le(a, b) == a.num * b.den <= b.num * a.den

Eq(a, b) == a.num * b.den = b.num * a.den

Add(a, b) == Frac(a.num * b.den + b.num * a.den, a.den * b.den)

Sub(a, b) == Frac(a.num * b.den - b.num * a.den, a.den * b.den)

---------------------------------------------------------------------------
(* Strings and the default normalizer *)

NoneAction == [isNone |-> TRUE, text |-> <<>>]

Str(s) == [isNone |-> FALSE, text |-> s]

IsSpace(c) == c \in {" ", "\t", "\n"}

Lower(c) ==
    CASE c = "A" -> "a"
      [] c = "B" -> "b"
      [] OTHER -> c

RECURSIVE LStrip(_)
LStrip(s) ==
    IF Len(s) > 0 /\ IsSpace(Head(s)) THEN LStrip(Tail(s)) ELSE s

RECURSIVE RStrip(_)
RStrip(s) ==
    IF Len(s) > 0 /\ IsSpace(s[Len(s)]) THEN RStrip(SubSeq(s, 1, Len(s) - 1)) ELSE s

Strip(s) == RStrip(LStrip(s))

ToLower(s) == [i \in 1..Len(s) |-> Lower(s[i])]

\* s.split()[0] for a string that starts with a non-space character
RECURSIVE FirstToken(_)
FirstToken(s) ==
    IF Len(s) = 0 \/ IsSpace(Head(s)) THEN <<>> ELSE <<Head(s)>> \o FirstToken(Tail(s))

\* The signature "" is the empty sequence.
DefaultNormalizer(action) ==
    IF action.isNone THEN <<>>
    ELSE LET s == ToLower(Strip(action.text))
         IN  IF Len(s) = 0 THEN <<>> ELSE FirstToken(s)

\* log_action's effect on a history
LogAction(h, action) ==
    LET sig == DefaultNormalizer(action)
    IN  IF Len(sig) > 0 THEN Append(h, sig) ELSE h

---------------------------------------------------------------------------
(* Python slicing seq[lo:hi], indices counted from 0, negative ones from    *)
(* the end, both clamped to the sequence.                                  *)

SliceIndex(i, n) ==
    IF i < 0 THEN (IF i + n < 0 THEN 0 ELSE i + n)
    ELSE (IF i > n THEN n ELSE i)

PySlice(s, lo, hi) ==
    LET a == SliceIndex(lo, Len(s))
        b == SliceIndex(hi, Len(s))
    IN  IF a >= b THEN <<>> ELSE SubSeq(s, a + 1, b)

\* seq[lo:]
PySliceFrom(s, lo) ==
    LET a == SliceIndex(lo, Len(s))
    IN  IF a >= Len(s) THEN <<>> ELSE SubSeq(s, a + 1, Len(s))

---------------------------------------------------------------------------
(* Freshness *)

Distinct(seq) == {seq[i] : i \in 1..Len(seq)}

\* mutant: the ratio upside down, total over unique
freshnessInverted(seq) ==
    IF Len(seq) = 0 THEN One
    ELSE Frac(Len(seq), Cardinality(Distinct(seq)))

\* mutant: the items counted without set(), so every sequence scores 1
freshnessNoSet(seq) ==
    IF Len(seq) = 0 THEN One
    ELSE Frac(Len(seq), Len(seq))

freshness(seq) ==
    IF Len(seq) = 0 THEN One
    ELSE Frac(Cardinality(Distinct(seq)), Len(seq))

AmberMargin == Frac(15, 100)

\* mutant: the min_steps gate dropped
VerdictNoGate(total, fresh, ms, kt) ==
    IF Lt(fresh, kt) THEN <<"RED", "KILL RUN">>
    ELSE IF Lt(fresh, Add(kt, AmberMargin)) THEN <<"AMBER", "WARN: DRIFT">>
    ELSE <<"GREEN", "HEALTHY">>

\* mutant: the thresholds closed on the low side, <= for <
VerdictClosed(total, fresh, ms, kt) ==
    IF total >= ms /\ Le(fresh, kt) THEN <<"RED", "KILL RUN">>
    ELSE IF total >= ms /\ Le(fresh, Add(kt, AmberMargin)) THEN <<"AMBER", "WARN: DRIFT">>
    ELSE <<"GREEN", "HEALTHY">>

\* lines 74-80 of audit: the status and the recommendation
Verdict(total, fresh, ms, kt) ==
    IF total >= ms /\ Lt(fresh, kt) THEN <<"RED", "KILL RUN">>
    ELSE IF total >= ms /\ Lt(fresh, Add(kt, AmberMargin)) THEN <<"AMBER", "WARN: DRIFT">>
    ELSE <<"GREEN", "HEALTHY">>

\* the scope audit scores
AuditScope(h, ws, use_window) ==
    IF use_window /\ Len(h) > ws THEN PySliceFrom(h, -ws) ELSE h

AuditResult(h, ws, ms, kt, use_window) ==
    IF Len(h) = 0
    THEN [op |-> "audit", use_window |-> use_window, n |-> 0, scope |-> <<>>,
          status |-> "GREEN", freshness |-> One, burn_rate |-> Zero,
          recommendation |-> "Continue"]
    ELSE LET scope == AuditScope(h, ws, use_window)
             total == Len(scope)
             fr    == freshness(scope)
             v     == Verdict(total, fr, ms, kt)
         IN  [op |-> "audit", use_window |-> use_window, n |-> Len(h), scope |-> scope,
              status |-> v[1], freshness |-> fr, burn_rate |-> Sub(One, fr),
              recommendation |-> v[2]]

\* the windows min_window_freshness scores: history[i - ws : i] for i in range(ws, len + 1)
Windows(h, ws) ==
    [k \in 1..(Len(h) + 1 - ws) |-> PySlice(h, (ws + k - 1) - ws, ws + k - 1)]

RECURSIVE MinOf(_)
MinOf(fs) ==
    IF Len(fs) = 1 THEN fs[1]
    ELSE LET m == MinOf(Tail(fs))
         IN  IF Lt(m, fs[1]) THEN m ELSE fs[1]

\* mutant: range(ws, len(history)), the last window never scored
MinWindowFreshnessSkipLast(h, ws) ==
    IF Len(h) = 0 THEN One
    ELSE IF Len(h) <= ws THEN freshness(h)
    ELSE LET w    == SubSeq(Windows(h, ws), 1, Len(h) - ws)
             mins == [k \in 1..Len(w) |-> freshness(w[k])]
         IN  IF Len(mins) > 0 THEN MinOf(mins) ELSE One

\* mutant: only the tail window scored, as audit does
MinWindowFreshnessTailOnly(h, ws) ==
    IF Len(h) = 0 THEN One
    ELSE IF Len(h) <= ws THEN freshness(h)
    ELSE freshness(PySlice(h, Len(h) - ws, Len(h)))

MinWindowFreshness(h, ws) ==
    IF Len(h) = 0 THEN One
    ELSE IF Len(h) <= ws THEN freshness(h)
    ELSE LET w    == Windows(h, ws)
             mins == [k \in 1..Len(w) |-> freshness(w[k])]
         IN  IF Len(mins) > 0 THEN MinOf(mins) ELSE One

---------------------------------------------------------------------------
(* The watchdog instance *)

RawActions ==
    { NoneAction, Str(<<>>), Str(<<" ">>), Str(<<"a">>), Str(<<"A", " ">>),
      Str(<<" ", "b">>), Str(<<"a", " ", "b">>), Str(<<"B", "\t", "a">>) }

Thresholds == { Frac(1, 4), Frac(1, 2), Frac(9, 10) }

NoCall == [op |-> "none"]

Init ==
    /\ kill_threshold \in Thresholds
    /\ window_size \in 0..MaxWindow
    /\ min_steps \in 0..MaxMinSteps
    /\ history = <<>>
    /\ ret = NoCall
    /\ online = NoCall
    /\ labeled_logs = <<>>
    /\ thresholds = NoCall
    /\ objective = ""
    /\ seqs = <<>>

log_action(action) ==
    /\ Len(history) < MaxHist
    /\ history' = LogAction(history, action)
    /\ ret' = [op |-> "log_action"]
    /\ UNCHANGED <<kill_threshold, window_size, min_steps, online,
                   labeled_logs, thresholds, objective, seqs>>

audit(use_window) ==
    /\ ret' = AuditResult(history, window_size, min_steps, kill_threshold, use_window)
    /\ online' = IF use_window THEN ret' ELSE online
    /\ UNCHANGED <<kill_threshold, window_size, min_steps, history,
                   labeled_logs, thresholds, objective, seqs>>

min_window_freshness ==
    /\ ret' = [op |-> "min_window_freshness", n |-> Len(history),
               windows |-> IF Len(history) > window_size
                           THEN Windows(history, window_size) ELSE <<history>>,
               freshness |-> MinWindowFreshness(history, window_size)]
    /\ UNCHANGED <<kill_threshold, window_size, min_steps, history, online,
                   labeled_logs, thresholds, objective, seqs>>

Next ==
    \/ \E action \in RawActions : log_action(action)
    \/ \E use_window \in BOOLEAN : audit(use_window)
    \/ min_window_freshness

Spec == Init /\ [][Next]_vars

---------------------------------------------------------------------------
(* calibrate *)

\* np.linspace(0.10, 0.50, 41)
DefaultThresholds == [i \in 1..41 |-> Frac(9 + i, 100)]

DefaultThreshold == Frac(25, 100)

\* best_score = -1e9, in the units of ScaledScore
InitialBestScore == -1000000000

NoThresholds == [given |-> FALSE, list |-> <<>>]

GivenThresholds(ts) == [given |-> TRUE, list |-> ts]

\* round(x, 2) of a non-negative x: to the nearest hundredth, a tie to the even
\* one (the ties among the candidates of this model are exact in binary)
Round2(x) ==
    LET n == x.num * 100
        q == n \div x.den
        r == n % x.den
    IN  IF 2 * r < x.den THEN Frac(q, 100)
        ELSE IF 2 * r > x.den THEN Frac(q + 1, 100)
        ELSE IF q % 2 = 0 THEN Frac(q, 100) ELSE Frac(q + 1, 100)

\* lines 115-121: a fresh watchdog fed the run's actions
RECURSIVE Replay(_, _)
Replay(h, actions) ==
    IF Len(actions) = 0 THEN h
    ELSE Replay(LogAction(h, Head(actions)), Tail(actions))

\* lines 123-132: how one run counts under candidate t
Outcome(run, t, ws) ==
    LET feature          == MinWindowFreshness(Replay(<<>>, run.actions), ws)
        predicted_zombie == Lt(feature, t)
        actual_success   == run.success
    IN  IF predicted_zombie /\ actual_success THEN "false_kill"
        ELSE IF (~predicted_zombie) /\ (~actual_success) THEN "missed_fail"
        ELSE "correct"

\* lines 109-134: the counters after the loop over the runs
RECURSIVE Tally(_, _, _, _)
Tally(logs, t, ws, c) ==
    IF Len(logs) = 0 THEN c
    ELSE LET o == Outcome(Head(logs), t, ws)
         IN  Tally(Tail(logs), t, ws,
                   [false_kill  |-> c.false_kill + (IF o = "false_kill" THEN 1 ELSE 0),
                    missed_fail |-> c.missed_fail + (IF o = "missed_fail" THEN 1 ELSE 0),
                    correct     |-> c.correct + (IF o = "correct" THEN 1 ELSE 0),
                    total       |-> c.total + 1])

NoCounts == [false_kill |-> 0, missed_fail |-> 0, correct |-> 0, total |-> 0]

\* lines 136-141, times 2 * max(1, total): the factor is positive and the same
\* for every candidate of one call, so the order of the scores is the code's
ScaledScore(c, obj) ==
    IF obj = "avoid_killing_winners"
    THEN 2 * c.correct - 5 * c.false_kill - 2 * c.missed_fail
    ELSE 2 * c.correct

\* mutant: a tie keeps the earlier candidate, whatever its size
BetterFirstWins(score, t, best) ==
    score > best.score

\* line 143.  Two scores of one call are equal or at least 1 / (2 * total)
\* apart, so "within eps = 1e-12" is equality and "above best + eps" is above.
Better(score, t, best) ==
    \/ score > best.score
    \/ (score = best.score /\ Lt(t, best.t))

\* lines 109-145: one pass of the loop body, for candidate t
Step(t, logs, ws, obj, best) ==
    LET score == ScaledScore(Tally(logs, t, ws, NoCounts), obj)
    IN  IF Better(score, t, best) THEN [score |-> score, t |-> t] ELSE best

\* line 108: the loop over candidates ts[lo..hi], in order, from best.  The
\* range is halved, and the first half's result is settled before the second
\* half starts, only to keep the evaluation shallow.
RECURSIVE Search(_, _, _, _, _, _, _)
Search(ts, lo, hi, logs, ws, obj, best) ==
    IF lo > hi THEN best
    ELSE IF lo = hi THEN Step(ts[lo], logs, ws, obj, best)
    ELSE LET mid  == (lo + hi) \div 2
             left == Search(ts, lo, mid, logs, ws, obj, best)
         IN  IF left.score >= InitialBestScore
             THEN Search(ts, mid + 1, hi, logs, ws, obj, left)
             ELSE left

Calibrate(logs, ws, ms, obj, th) ==
    LET ts   == IF th.given THEN th.list ELSE DefaultThresholds
        best == Search(ts, 1, Len(ts), logs, ws, obj,
                       [score |-> InitialBestScore, t |-> DefaultThreshold])
    IN  Round2(best.t)

MaxRuns == 2
MaxCandidates == 2

SeqsUpTo(S, n) == UNION { [1..k -> S] : k \in 0..n }

\* action lists of labeled runs; their signatures are a a a and a a b
RunPool ==
    { << Str(<<"a">>), Str(<<"A", " ">>), NoneAction, Str(<<"a", " ", "b">>) >>,
      << Str(<<"a">>), Str(<<" ">>), Str(<<"a">>), Str(<<"B">>) >> }

LabeledRuns == [actions : RunPool, success : BOOLEAN]

CandidateValues == { Frac(1, 8), Frac(2, 5), Frac(7, 10) }

Objectives == { "avoid_killing_winners", "accuracy" }

DefaultMinSteps == 5

InitCalibrate ==
    /\ labeled_logs \in SeqsUpTo(LabeledRuns, MaxRuns)
    /\ thresholds \in {NoThresholds}
          \cup { GivenThresholds(ts) : ts \in SeqsUpTo(CandidateValues, MaxCandidates) }
    /\ window_size \in 0..MaxWindow
    /\ min_steps = DefaultMinSteps
    /\ objective \in Objectives
    /\ ret = NoCall
    /\ kill_threshold = DefaultThreshold
    /\ history = <<>>
    /\ online = NoCall
    /\ seqs = <<>>

calibrate ==
    /\ ret.op = "none"
    /\ ret' = [op |-> "calibrate",
               value |-> Calibrate(labeled_logs, window_size, min_steps,
                                   objective, thresholds)]
    /\ UNCHANGED <<kill_threshold, window_size, min_steps, history, online,
                   labeled_logs, thresholds, objective, seqs>>

NextCalibrate == calibrate

SpecCalibrate == InitCalibrate /\ [][NextCalibrate]_vars

---------------------------------------------------------------------------
(* _freshness on its own: two sequences of normalized items, scored *)

MaxSeqLen == 3

Items == { <<"a">>, <<"b">>, <<"c">>, <<"d">> }

InitFreshness ==
    /\ seqs \in UNION { [1..k -> Items] \X [1..k -> Items] : k \in 0..MaxSeqLen }
    /\ ret = NoCall
    /\ kill_threshold = DefaultThreshold
    /\ window_size = 0
    /\ min_steps = 0
    /\ history = <<>>
    /\ online = NoCall
    /\ labeled_logs = <<>>
    /\ thresholds = NoCall
    /\ objective = ""

score_both ==
    /\ ret.op = "none"
    /\ ret' = [op |-> "_freshness",
               values |-> <<freshness(seqs[1]), freshness(seqs[2])>>]
    /\ UNCHANGED <<kill_threshold, window_size, min_steps, history, online,
                   labeled_logs, thresholds, objective, seqs>>

NextFreshness == score_both

SpecFreshness == InitFreshness /\ [][NextFreshness]_vars

---------------------------------------------------------------------------
(* Properties of the watchdog instance (specification Spec) *)

IsAudit == ret.op = "audit"

IsMinWindow == ret.op = "min_window_freshness"

\* the last k items of h, by position
LastItems(h, k) == [i \in 1..k |-> h[Len(h) - k + i]]

\* C1. Evidence gate: whenever audit scored fewer than min_steps items, the
\* status it returned is GREEN, however low the freshness.
C1_EvidenceGate ==
    (IsAudit /\ Len(ret.scope) < min_steps) => ret.status = "GREEN"

\* a non-empty scope below min_steps whose freshness is under the kill threshold
C1_Witness ==
    /\ IsAudit
    /\ ret.scope # <<>>
    /\ Len(ret.scope) < min_steps
    /\ Lt(ret.freshness, kill_threshold)
    /\ ret.status = "GREEN"

\* the three bands of the status, as the claim states them
Bands(r) ==
    /\ r.status = "RED" <=> Lt(r.freshness, kill_threshold)
    /\ r.status = "AMBER" <=>
          (Le(kill_threshold, r.freshness)
             /\ Lt(r.freshness, Add(kill_threshold, AmberMargin)))
    /\ r.status = "GREEN" <=> Le(Add(kill_threshold, AmberMargin), r.freshness)

\* C2 as stated. Status boundaries: whenever the audited scope holds at least
\* min_steps items, the status is RED exactly when freshness < kill_threshold,
\* AMBER exactly when kill_threshold <= freshness < kill_threshold + 0.15 and
\* GREEN exactly when freshness >= kill_threshold + 0.15.
C2_Original ==
    (IsAudit /\ Len(ret.scope) >= min_steps) => Bands(ret)

\* C2 amended. The same bands whenever the history is non-empty and the audited
\* scope holds at least min_steps items; an empty history is GREEN whatever
\* the thresholds.
C2_StatusBoundaries ==
    /\ (IsAudit /\ ret.n > 0 /\ Len(ret.scope) >= min_steps) => Bands(ret)
    /\ (IsAudit /\ ret.n = 0) => ret.status = "GREEN"

\* freshness exactly kill_threshold + 0.15 with enough evidence: GREEN
C2_Witness ==
    /\ IsAudit
    /\ min_steps > 0
    /\ Len(ret.scope) >= min_steps
    /\ Eq(ret.freshness, Add(kill_threshold, AmberMargin))
    /\ ret.status = "GREEN"

\* C4 as stated. Window bound: on a history longer than window_size,
\* min_window_freshness() is at most the freshness of the whole history.
C4_Original ==
    (IsMinWindow /\ Len(history) > window_size)
        => Le(ret.freshness, freshness(history))

\* C4 amended. On a history longer than window_size, min_window_freshness() is
\* at most the freshness of the last window_size items of the history.
C4_WindowBound ==
    (IsMinWindow /\ Len(history) > window_size)
        => Le(ret.freshness, freshness(LastItems(history, window_size)))

\* the rolling minimum is the tail window's score and lies above the whole history's
C4_Witness ==
    /\ IsMinWindow
    /\ window_size > 1
    /\ Len(history) > window_size
    /\ Eq(ret.freshness, freshness(LastItems(history, window_size)))
    /\ Lt(ret.freshness, One)
    /\ Lt(freshness(history), ret.freshness)

\* C6. Freshness range: every freshness audit or min_window_freshness reports
\* lies in [0,1], and it is 1 when the history is empty.
C6_FreshnessRange ==
    (IsAudit \/ IsMinWindow) =>
        /\ Le(Zero, ret.freshness)
        /\ Le(ret.freshness, One)
        /\ (history = <<>> => Eq(ret.freshness, One))

\* a report strictly between 0 and 1
C6_Witness ==
    /\ IsMinWindow
    /\ Len(history) > window_size
    /\ Lt(Zero, ret.freshness)
    /\ Lt(ret.freshness, One)

\* C7. Window size bound: the scope audit(use_window=True) scores, and every
\* window min_window_freshness scores on a history longer than window_size,
\* holds at most window_size items, the last window_size items of its prefix.
C7_WindowSizeBound ==
    /\ (IsAudit /\ ret.use_window) =>
          /\ Len(ret.scope) <= window_size
          /\ ret.n >= window_size => ret.scope = LastItems(history, window_size)
    /\ (IsMinWindow /\ Len(history) > window_size) =>
          \A k \in 1..Len(ret.windows) :
              ret.windows[k] =
                  LastItems(SubSeq(history, 1, window_size + k - 1), window_size)

\* C8. Insufficient evidence: whenever audit scored fewer than min_steps items
\* it returns GREEN with the recommendation "Continue".
C8_InsufficientEvidence ==
    (IsAudit /\ Len(ret.scope) < min_steps) =>
        (ret.status = "GREEN" /\ ret.recommendation = "Continue")

\* C10 as stated, on the window sizes (>= 1) where audit's window is the tail
\* window. Whatever freshness a windowed audit reported after a prefix of the
\* run, min_window_freshness() on the later history is at most it.
C10_Original ==
    (IsMinWindow /\ online.op = "audit" /\ window_size >= 1)
        => Le(ret.freshness, online.freshness)

\* C10 amended. The same for every windowed audit whose scope held exactly
\* window_size items, that is, taken once the history had reached window_size.
C10_WorstCase ==
    (IsMinWindow /\ online.op = "audit" /\ Len(online.scope) = window_size)
        => Le(ret.freshness, online.freshness)

\* a loop seen by an earlier full-window audit, gone from the tail window since
C10_Witness ==
    /\ IsMinWindow
    /\ online.op = "audit"
    /\ window_size > 1
    /\ Len(online.scope) = window_size
    /\ online.n < Len(history)
    /\ Eq(ret.freshness, online.freshness)
    /\ Lt(ret.freshness, freshness(LastItems(history, window_size)))

---------------------------------------------------------------------------
(* Properties of calibrate (specification SpecCalibrate) *)

IsCalibrate == ret.op = "calibrate"

\* the candidates the call searches, as a set
CandidateSet ==
    IF thresholds.given
    THEN { thresholds.list[i] : i \in 1..Len(thresholds.list) }
    ELSE { DefaultThresholds[i] : i \in 1..Len(DefaultThresholds) }

Runs == 1..Len(labeled_logs)

PredictedZombie(i, t) ==
    Lt(MinWindowFreshness(Replay(<<>>, labeled_logs[i].actions), window_size), t)

FalseKills(t) ==
    Cardinality({ i \in Runs : PredictedZombie(i, t) /\ labeled_logs[i].success })

MissedFailures(t) ==
    Cardinality({ i \in Runs : ~PredictedZombie(i, t) /\ ~labeled_logs[i].success })

RunCount == IF Len(labeled_logs) = 0 THEN 1 ELSE Len(labeled_logs)

Accuracy(t) ==
    Frac(Len(labeled_logs) - FalseKills(t) - MissedFailures(t), RunCount)

\* accuracy - 2.5 * (false-kill rate) - 1.0 * (missed-failure rate), or accuracy
ObjectiveScore(t) ==
    IF objective = "avoid_killing_winners"
    THEN Sub(Sub(Accuracy(t), Frac(5 * FalseKills(t), 2 * RunCount)),
             Frac(MissedFailures(t), RunCount))
    ELSE Accuracy(t)

\* the highest score among scores
Highest(scores) == CHOOSE m \in scores : \A x \in scores : Le(x, m)

\* the candidates whose score is the highest any candidate reaches
TopCandidates ==
    LET top == Highest({ ObjectiveScore(t) : t \in CandidateSet })
    IN  { t \in CandidateSet : Eq(ObjectiveScore(t), top) }

\* the smallest of ts
Smallest(ts) == CHOOSE t \in ts : \A u \in ts : Le(t, u)

SameLabel ==
    \A i \in Runs : \A j \in Runs : labeled_logs[i].success = labeled_logs[j].success

\* C3. Calibration safe default: on an empty collection of labeled runs, or one
\* whose runs all carry the same label, calibrate returns the default 0.25.
C3_SafeDefault ==
    (IsCalibrate /\ SameLabel) => Eq(ret.value, DefaultThreshold)

\* C5. Selection rule: for a non-empty candidate set calibrate returns, rounded
\* to 2 decimals, the smallest of the candidates whose score is the maximum.
\* The right-hand side reads the candidates as a set and the runs through
\* counts, so the result depends on the order of neither.
C5_SelectionRule ==
    (IsCalibrate /\ CandidateSet # {}) => Eq(ret.value, Round2(Smallest(TopCandidates)))

\* two candidates tie at the top, the larger one first, on runs of both labels
C5_Witness ==
    /\ IsCalibrate
    /\ thresholds.given
    /\ Len(thresholds.list) = 2
    /\ Lt(thresholds.list[2], thresholds.list[1])
    /\ TopCandidates = CandidateSet
    /\ objective = "avoid_killing_winners"
    /\ \E i \in Runs : \E j \in Runs :
          /\ labeled_logs[i].success
          /\ ~labeled_logs[j].success
          /\ PredictedZombie(j, thresholds.list[1])
    /\ Eq(ret.value, Round2(thresholds.list[2]))

---------------------------------------------------------------------------
(* Properties of _freshness (specification SpecFreshness) *)

AllIdentical(s) == \A i \in 1..Len(s) : s[i] = s[1]

PairwiseDistinct(s) == \A i \in 1..Len(s) : \A j \in 1..Len(s) : s[i] = s[j] => i = j

\* C9. Monotonicity: n identical items score at most what n pairwise distinct
\* items score, and strictly less when n >= 2.
C9_Monotonicity ==
    (/\ ret.op = "_freshness"
     /\ Len(seqs[1]) >= 1
     /\ AllIdentical(seqs[1])
     /\ PairwiseDistinct(seqs[2]))
        => /\ Le(ret.values[1], ret.values[2])
           /\ Len(seqs[1]) >= 2 => Lt(ret.values[1], ret.values[2])

\* three repeats of one item against three distinct items
C9_Witness ==
    /\ ret.op = "_freshness"
    /\ Len(seqs[1]) = 3
    /\ AllIdentical(seqs[1])
    /\ PairwiseDistinct(seqs[2])
    /\ Lt(ret.values[1], ret.values[2])

===========================================================================
